---- MODULE Spec2Model ----
(* A model of the only_null crate (src/src/lib.rs): the OnlyNull<T> value   *)
(* type, its constructors, its cast, its conversions to and from raw        *)
(* pointers and its derived traits.  A caller holds one raw pointer `ptr`   *)
(* and two slots of OnlyNull values and applies the crate's operations to   *)
(* them; an operation is applicable exactly when the impl's bounds hold.    *)
EXTENDS Integers, Sequences, FiniteSets, TLC

(* ---------------- bounds ---------------- *)
MaxAddr == 2
MaxLen == 7
NumVTables == 2

(* ---------------- pointee types and their metadata ---------------- *)
SizedTypes == {"u8", "u32", "S"}
ExternTypes == {"Ext"}
SliceTypes == {"[u8]", "[u16]"}
DynTypes == {"dyn Tr"}
Types == SizedTypes \cup ExternTypes \cup SliceTypes \cup DynTypes

MetaShape(T) ==
  IF T \in SliceTypes THEN "len"
  ELSE IF T \in DynTypes THEN "vtable"
  ELSE "unit"

Sized(T) == T \in SizedTypes

Unit == [shape |-> "unit", n |-> 0]

MetaValues(T) ==
  IF MetaShape(T) = "len" THEN [shape : {"len"}, n : 0..MaxLen]
  ELSE IF MetaShape(T) = "vtable" THEN [shape : {"vtable"}, n : 1..NumVTables]
  ELSE {Unit}

(* traits of the pointee types that the derives of OnlyNull depend on *)
DerivableTraits == {"Clone", "Copy", "PartialEq", "Eq", "Hash", "Default"}

TypeImpls(T) == IF T \in {"u8", "u32"} THEN DerivableTraits ELSE {}

Derives(T, trait) == trait \in TypeImpls(T)

(* ---------------- raw pointers ---------------- *)
RawPtrs ==
  UNION {[T : {T}, mutbl : BOOLEAN, addr : 0..MaxAddr, meta : MetaValues(T)] : T \in Types}

is_null(p) == p.addr = 0

to_raw_parts(p) == <<p.addr, p.meta>>

ptr_null_dangling(T) == [T |-> T, mutbl |-> FALSE, addr |-> 1, meta |-> Unit]

ptr_null(T) == [T |-> T, mutbl |-> FALSE, addr |-> 0, meta |-> Unit]

ptr_null_mut_dangling(T) == [T |-> T, mutbl |-> TRUE, addr |-> 1, meta |-> Unit]

ptr_null_mut(T) == [T |-> T, mutbl |-> TRUE, addr |-> 0, meta |-> Unit]

AsConst(p) == [p EXCEPT !.mutbl = FALSE]

AsMut(p) == [p EXCEPT !.mutbl = TRUE]

(* ---------------- OnlyNull ---------------- *)
PhantomData == "PhantomData"

OnlyNull(T, m) == [T |-> T, meta |-> m, _phantom |-> PhantomData]

ConvertToOnlyNullError == "ConvertToOnlyNullError"

None == <<>>

Some(v) == <<v>>

Ok(v) == [kind |-> "Ok", val |-> Some(v), err |-> None]

Err(e) == [kind |-> "Err", val |-> None, err |-> Some(e)]

NoResult == [kind |-> "NoResult", val |-> None, err |-> None]

NullImplemented(T) == MetaShape(T) = "unit"

null(T) == OnlyNull(T, Unit)

CastImplemented(T, U) == MetaShape(U) = MetaShape(T)

cast_bumps_meta(v, U) == OnlyNull(U, [v.meta EXCEPT !.n = @ + 1])

cast_forgets_meta(v, U) == OnlyNull(U, [shape |-> "len", n |-> 0])

cast(v, U) == OnlyNull(U, v.meta)

FromImplemented(T) == Sized(T)

FromConst(v) == ptr_null(v.T)

FromMut_keeps_address(v) == [T |-> v.T, mutbl |-> TRUE, addr |-> 1, meta |-> v.meta]

FromMut(v) == ptr_null_mut(v.T)

TryFromImplemented(T) == Sized(T)

TryFromConst_swapped(p) ==
  IF is_null(p) THEN Err(ConvertToOnlyNullError)
  ELSE Ok(OnlyNull(p.T, to_raw_parts(p)[2]))

TryFromConst(p) ==
  IF is_null(p) THEN Ok(OnlyNull(p.T, to_raw_parts(p)[2]))
  ELSE Err(ConvertToOnlyNullError)

TryFromMut_swapped(p) ==
  IF ~is_null(p) THEN Ok(OnlyNull(p.T, to_raw_parts(p)[2]))
  ELSE Err(ConvertToOnlyNullError)

TryFromMut(p) ==
  IF is_null(p) THEN Ok(OnlyNull(p.T, to_raw_parts(p)[2]))
  ELSE Err(ConvertToOnlyNullError)

(* ---------------- derived traits ---------------- *)
DefaultImplemented(T) == Derives(T, "Default")

MetaDefault_one(shape) == [shape |-> shape, n |-> 1]

MetaDefault(shape) == [shape |-> shape, n |-> 0]

Default(T) == [T |-> T, meta |-> MetaDefault(MetaShape(T)), _phantom |-> PhantomData]

EqImplemented(T) == Derives(T, "PartialEq")

eq_is_ne(a, b) == a.meta # b.meta \/ a._phantom # b._phantom

eq(a, b) == a.meta = b.meta /\ a._phantom = b._phantom

HashImplemented(T) == Derives(T, "Hash")

HashMeta(m, state) == IF m.shape = "unit" THEN state ELSE Append(state, m.n)

hash(v, state) == HashMeta(v.meta, state)

CloneImplemented(T) == Derives(T, "Clone")

clone(v) == [T |-> v.T, meta |-> v.meta, _phantom |-> v._phantom]

IsCopy(T) == Derives(T, "Copy")

(* what is left in a slot after its value was passed by value *)
AfterUse(slot) == IF IsCopy(slot[1].T) THEN slot ELSE None

(* ---------------- state ---------------- *)
VARIABLES ptr, val, other, self1, self2, res, out, op

vars == <<ptr, val, other, self1, self2, res, out, op>>

Init ==
  /\ ptr \in RawPtrs
  /\ val = None
  /\ other = None
  /\ self1 = None
  /\ self2 = None
  /\ res = NoResult
  /\ out = None
  /\ op = [name |-> "init", T |-> ptr.T]

NullStep(T) ==
  /\ NullImplemented(T)
  /\ val' = Some(null(T))
  /\ self1' = None
  /\ self2' = None
  /\ op' = [name |-> "null", T |-> T]
  /\ UNCHANGED <<ptr, other, res, out>>

DefaultStep(T) ==
  /\ DefaultImplemented(T)
  /\ val' = Some(Default(T))
  /\ self1' = None
  /\ self2' = None
  /\ op' = [name |-> "default", T |-> T]
  /\ UNCHANGED <<ptr, other, res, out>>

CastStep(U) ==
  /\ val # None
  /\ CastImplemented(val[1].T, U)
  /\ val' = Some(cast(val[1], U))
  /\ self1' = val
  /\ self2' = IF op.name = "cast" THEN self1 ELSE None
  /\ op' = [name |-> "cast", T |-> U]
  /\ UNCHANGED <<ptr, other, res, out>>

IntoConstStep ==
  /\ val # None
  /\ FromImplemented(val[1].T)
  /\ out' = Some(FromConst(val[1]))
  /\ self1' = val
  /\ self2' = None
  /\ val' = AfterUse(val)
  /\ op' = [name |-> "into_const", T |-> val[1].T]
  /\ UNCHANGED <<ptr, other, res>>

IntoMutStep ==
  /\ val # None
  /\ FromImplemented(val[1].T)
  /\ out' = Some(FromMut(val[1]))
  /\ self1' = val
  /\ self2' = None
  /\ val' = AfterUse(val)
  /\ op' = [name |-> "into_mut", T |-> val[1].T]
  /\ UNCHANGED <<ptr, other, res>>

TryFromConstStep ==
  /\ ~ptr.mutbl
  /\ TryFromImplemented(ptr.T)
  /\ res' = TryFromConst(ptr)
  /\ val' = IF res'.kind = "Ok" THEN res'.val ELSE val
  /\ self1' = None
  /\ self2' = None
  /\ op' = [name |-> "try_from_const", T |-> ptr.T]
  /\ UNCHANGED <<ptr, other, out>>

TryFromMutStep ==
  /\ ptr.mutbl
  /\ TryFromImplemented(ptr.T)
  /\ res' = TryFromMut(ptr)
  /\ val' = IF res'.kind = "Ok" THEN res'.val ELSE val
  /\ self1' = None
  /\ self2' = None
  /\ op' = [name |-> "try_from_mut", T |-> ptr.T]
  /\ UNCHANGED <<ptr, other, out>>

CloneStep ==
  /\ val # None
  /\ CloneImplemented(val[1].T)
  /\ other' = Some(clone(val[1]))
  /\ op' = [name |-> "clone", T |-> val[1].T]
  /\ UNCHANGED <<ptr, val, self1, self2, res, out>>

CopyStep ==
  /\ val # None
  /\ IsCopy(val[1].T)
  /\ other' = val
  /\ op' = [name |-> "copy", T |-> val[1].T]
  /\ UNCHANGED <<ptr, val, self1, self2, res, out>>

Next ==
  \/ \E T \in Types : NullStep(T)
  \/ \E T \in Types : DefaultStep(T)
  \/ \E U \in Types : CastStep(U)
  \/ IntoConstStep
  \/ IntoMutStep
  \/ TryFromConstStep
  \/ TryFromMutStep
  \/ CloneStep
  \/ CopyStep

Spec == Init /\ [][Next]_vars

(* ---------------- helpers for the properties ---------------- *)
Tried == res.kind # "NoResult"

IntoOps == {"into_const", "into_mut"}

Slots == {val, other} \ {None}

(* ---------------- properties ---------------- *)

(* C1: try_from on a raw pointer (constant or mutable) returns            *)
(* ConvertToOnlyNullError exactly when the pointer's address is not null: *)
(* a non-null address yields the error and no value, a null address       *)
(* yields a value and no error.                                           *)
C1_ErrorIffNonNull ==
  Tried =>
    /\ res.kind = "Err" <=> ptr.addr # 0
    /\ res.kind = "Err" => res.val = None /\ res.err = Some(ConvertToOnlyNullError)
    /\ ptr.addr = 0 => res.kind = "Ok" /\ res.val # None /\ res.err = None

C1_Witness ==
  /\ op.name = "try_from_mut"
  /\ ptr.addr # 0
  /\ res.kind = "Err"

(* C2: every OnlyNull value the program holds converts to the null        *)
(* address, as a constant and as a mutable raw pointer, and every raw     *)
(* pointer a conversion produced has the null address.                    *)
C2_OnlyEverNull ==
  /\ out # None => out[1].addr = 0
  /\ \A s \in Slots :
       FromImplemented(s[1].T) =>
         FromConst(s[1]).addr = 0 /\ FromMut(s[1]).addr = 0

C2_Witness ==
  /\ op.name = "into_mut"
  /\ out # None
  /\ res.kind = "Ok"
  /\ self1[1].T # ptr.T

(* C3: for a sized type T, converting the value of null() to a raw        *)
(* pointer gives the null pointer of type T, in the constant and in the   *)
(* mutable variant.                                                       *)
C3_NullConvertsToNull ==
  (op.name \in IntoOps /\ Sized(op.T) /\ self1 = Some(null(op.T))) =>
    out = Some([T |-> op.T, mutbl |-> (op.name = "into_mut"), addr |-> 0, meta |-> Unit])

C3_Witness ==
  /\ op.name = "into_const"
  /\ self1 = Some(null("S"))
  /\ out # None
  /\ val = None

(* C4: try_from on a null raw pointer succeeds, and converting the result *)
(* back to a raw pointer of the same variant gives a pointer equal to the *)
(* original, metadata included.                                           *)
C4_RoundTripThroughOnlyNull ==
  /\ (Tried /\ is_null(ptr)) => res.kind = "Ok"
  /\ ( /\ op.name \in IntoOps
       /\ (op.name = "into_mut") = ptr.mutbl
       /\ res.kind = "Ok"
       /\ self1 = res.val ) => out = Some(ptr)

C4_Witness ==
  /\ op.name = "into_const"
  /\ ~ptr.mutbl
  /\ is_null(ptr)
  /\ res.kind = "Ok"
  /\ self1 = res.val
  /\ out = Some(ptr)

(* C5: v.cast::<U>().cast::<T>() equals v, for T and U of the same        *)
(* metadata shape.                                                        *)
C5_CastRoundTrip ==
  (op.name = "cast" /\ self2 # None /\ self2[1].T = op.T) => val = self2

C5_Witness ==
  /\ op.name = "cast"
  /\ self2 # None
  /\ self2[1].T = op.T
  /\ self1[1].T # op.T
  /\ val = self2

(* C6: cast changes only the target type: the result carries the metadata *)
(* of the value it was applied to, has the requested type, and is always  *)
(* a value (cast has no failure outcome).                                 *)
C6_CastKeepsMetadata ==
  op.name = "cast" =>
    /\ val # None
    /\ val[1].T = op.T
    /\ val[1].meta = self1[1].meta
    /\ val[1]._phantom = self1[1]._phantom

C6_Witness ==
  /\ op.name = "cast"
  /\ val # None
  /\ val[1].T # self1[1].T
  /\ ~Sized(val[1].T)

(* C7: try_from is available for dynamically sized pointees and carries   *)
(* the metadata forward: a null slice pointer of length 7 converts into   *)
(* OnlyNull and back out to a null slice pointer of length 7.             *)
C7_SliceLengthSurvives ==
  (ptr.T \in SliceTypes /\ is_null(ptr) /\ ptr.meta.n = 7) =>
    /\ TryFromImplemented(ptr.T)
    /\ FromImplemented(ptr.T)
    /\ TryFromConst(ptr).kind = "Ok"
    /\ FromConst(TryFromConst(ptr).val[1]).addr = 0
    /\ FromConst(TryFromConst(ptr).val[1]).meta.n = 7

(* C8: two OnlyNull values of the same target type compare equal exactly  *)
(* when their metadata is equal, and values that compare equal hash       *)
(* identically, whichever operations produced them.                       *)
C8_EqAndHashAgree ==
  (val # None /\ other # None /\ val[1].T = other[1].T /\ EqImplemented(val[1].T)) =>
    /\ eq(val[1], other[1]) <=> val[1].meta = other[1].meta
    /\ (HashImplemented(val[1].T) /\ eq(val[1], other[1])) =>
         \A st \in {<<>>, <<1>>} : hash(val[1], st) = hash(other[1], st)

C8_Witness ==
  /\ val # None
  /\ other # None
  /\ val[1].T = other[1].T
  /\ EqImplemented(val[1].T)
  /\ op.name = "cast"
  /\ eq(val[1], other[1])

(* C9: for a sized type T, the default value of OnlyNull<T> equals the    *)
(* value null() returns.                                                  *)
C9_DefaultIsNull ==
  (op.name = "default" /\ Sized(op.T)) => val = Some(null(op.T))

C9_Witness ==
  /\ op.name = "default"
  /\ Sized(op.T)
  /\ val = Some(null(op.T))

(* C10: the constant and the mutable variant are interchangeable:         *)
(* try_from gives the same outcome for a constant and for a mutable       *)
(* pointer of the same address and metadata, and an OnlyNull value        *)
(* converts to constant and mutable raw pointers of the same address and  *)
(* metadata.                                                              *)
C10_ConstMutInterchangeable ==
  /\ TryFromImplemented(ptr.T) => TryFromConst(AsConst(ptr)) = TryFromMut(AsMut(ptr))
  /\ \A s \in Slots :
       FromImplemented(s[1].T) =>
         /\ FromConst(s[1]).addr = FromMut(s[1]).addr
         /\ FromConst(s[1]).meta = FromMut(s[1]).meta
         /\ FromConst(s[1]).T = FromMut(s[1]).T
  /\ (op.name = "into_mut" /\ self1 # None) =>
       out[1].addr = FromConst(self1[1]).addr /\ out[1].meta = FromConst(self1[1]).meta

C10_Witness ==
  /\ op.name = "into_mut"
  /\ res.kind = "Ok"
  /\ ~ptr.mutbl
  /\ out # None
====
